---- MODULE Spec2Model ----
(***************************************************************************)
(* A model of api-gateway/examples/python-client.py: the TeamCacheClient   *)
(* REST wrapper (its request/response operations, the monitor_job polling  *)
(* loop and batch_cache_directories) and the MetricsMonitor WebSocket      *)
(* receive loop.  The remote service is the environment: it answers every  *)
(* request with a failure status or with a payload whose fields may be     *)
(* present or missing, and it changes a job's status as it pleases.        *)
(***************************************************************************)
EXTENDS Integers, Sequences, FiniteSets, TLC

\* ---------------------------------------------------------------- bounds
MaxDirs == 2          \* longest directory list handed to batch_cache_directories
MaxClock == 3         \* the clock stops advancing here (seconds)

\* ------------------------------------------------------------ value sets
Absent == "<absent>"  \* a missing dict key / header
ApiKeys == {"demo-api-key-2024", "other-key"}
DirNames == {"d1", "d2"}
JobIds == {"j1", "j2"}
Statuses == {"pending", "running", "completed", "failed", "cancelled"}
Callbacks == {"None", "returns", "raises"}

\* Optional[List[str]]: None, or a (possibly empty) list
None == [none |-> TRUE, list |-> <<>>]
Some(l) == [none |-> FALSE, list |-> l]
OptLists == {None, Some(<<>>), Some(<<"x">>)}

RECURSIVE SeqsUpTo(_, _)
SeqsUpTo(S, n) ==
    IF n = 0 THEN {<<>>}
    ELSE LET shorter == SeqsUpTo(S, n - 1)
         IN  shorter \cup {Append(s, x) : s \in {t \in shorter : Len(t) = n - 1}, x \in S}

\* Python truthiness of an Optional[List]: None and [] are falsy
Truthy(x) == ~x.none /\ Len(x.list) > 0

\* ------------------------------------------------------------- requests
NoBody == [present |-> FALSE, recursive |-> FALSE, files |-> None, directories |-> None]
\* the query string: none, or page, limit and (when given and non-empty) status
NoParams == [present |-> FALSE, page |-> 0, limit |-> 0, status |-> Absent]

NoRequest ==
    [op |-> "none", method |-> Absent, endpoint |-> Absent, job_id |-> Absent,
     key |-> Absent, body |-> NoBody, params |-> NoParams]

Request(o, m, e, j, k, b) ==
    [op |-> o, method |-> m, endpoint |-> e, job_id |-> j, key |-> k, body |-> b,
     params |-> NoParams]

\* ------------------------------------------------------------ responses
NoJob == [present |-> FALSE, status |-> Absent, progress |-> FALSE]
Job(st, pr) == [present |-> TRUE, status |-> st, progress |-> pr]

NoResp ==
    [http |-> "none", jobId |-> Absent, totalFiles |-> FALSE, totalSize |-> FALSE,
     job |-> NoJob]
FailResp == [NoResp EXCEPT !.http = "error"]
OkResp == [NoResp EXCEPT !.http = "ok"]

\* what the service may answer on each endpoint
PlainResponses == {FailResp, OkResp}
CreateResponses ==
    {FailResp} \cup
    {[OkResp EXCEPT !.jobId = j, !.totalFiles = tf, !.totalSize = ts] :
        j \in JobIds \cup {Absent}, tf \in BOOLEAN, ts \in BOOLEAN}
StatusResponses(st) ==
    {FailResp, OkResp} \cup
    {[OkResp EXCEPT !.job = Job(s, pr)] : s \in {st, Absent}, pr \in BOOLEAN}

\* ------------------------------------------------- WebSocket messages
\* Optional[int]: None, or a number of seconds
NoDuration == [none |-> TRUE, val |-> 0]
Seconds(n) == [none |-> FALSE, val |-> n]
Durations == {NoDuration} \cup {Seconds(n) : n \in 0 .. MaxClock - 1}

MsgTypes == {"metrics", "lucidlink-stats", "s3-health", "other", Absent}
\* a lucidLink / s3Health value; the "-nokey" ones lack the fields that are printed
LLValues == {"ll-1", "ll-nokey"}
S3Values == {"s3-1", "s3-nokey"}
\* valid: json.loads(message) gave a dict
NoMsg == [valid |-> FALSE, type |-> Absent, lucidLink |-> Absent, s3Health |-> Absent]
BadMsg == [NoMsg EXCEPT !.type = "<not a json object>"]
Messages ==
    {BadMsg} \cup
    [valid : {TRUE}, type : MsgTypes, lucidLink : LLValues \cup {Absent},
     s3Health : S3Values \cup {Absent}]

DefaultArgs ==
    [files |-> None, directories |-> None, recursive |-> TRUE, monitor |-> TRUE,
     callback |-> "None", job_id |-> Absent]

VARIABLES
    api_key,        \* self.api_key
    session_key,    \* self.session.headers["X-API-Key"]
    pc,             \* where the client is: idle, done, batch_loop, mon_poll, mon_sleep
    op,             \* the public method being run
    args,           \* its arguments
    outcome,        \* "none", "returned", or the exception the call ended in
    ret,            \* payload returned by a plain REST method
    ret_job,        \* job returned by monitor_job
    idx,            \* position of batch_cache_directories in its list (1-based)
    job_ids,        \* batch_cache_directories' job_ids
    job_id,         \* job being polled by monitor_job
    serverStatus,   \* the remote job's status
    lastRequest,    \* the last HTTP request of the running call
    lastResp,       \* the answer it got
    createLog,      \* the job-creation exchanges of the running call, in order
    report,         \* how each batch item ended ("ok" or the error printed)
    polling,        \* batch items whose monitoring has begun and not ended
    slept,          \* a sleep happened since the last poll
    everSlept,      \* a sleep happened in this monitor_job
    ws_pc,          \* where connect_and_monitor is: idle, check, recv, done
    duration,       \* its argument
    start_time,     \* its start_time
    clock,          \* time.time(), in whole seconds
    metrics,        \* self.metrics
    lastMsg,        \* the message the last iteration received (NoMsg: none)
    wsEvent,        \* how the last iteration went
    lastLL,         \* lucidLink of the last metrics / lucidlink-stats message
    lastS3          \* s3Health of the last metrics / s3-health message

clientVars ==
    <<api_key, session_key, pc, op, args, outcome, ret, ret_job, idx, job_ids, job_id,
      serverStatus, lastRequest, lastResp, createLog, report, polling, slept, everSlept>>
wsVars == <<ws_pc, duration, start_time, clock, metrics, lastMsg, wsEvent, lastLL, lastS3>>
vars == <<clientVars, wsVars>>

\* ------------------------------------------------- TeamCacheClient: helpers

\* requests sent through self.session carry the session's headers
SessionRequest(o, m, e, j, b) == Request(o, m, e, j, session_key, b)
\* requests sent through the requests module carry no X-API-Key
ModuleRequest(o, m, e, j, b) == Request(o, m, e, j, Absent, b)

\* mutant: the status of the response is never looked at
raise_for_status_skipped(r) == FALSE
\* response.raise_for_status()
raise_for_status(r) == r.http = "error"

\* mutant: the check tests for None instead of for emptiness
CreateRaisesOnNoneOnly(files, directories) == files.none /\ directories.none
\* create_cache_job: the argument check and the request body
CreateRaisesValueError(files, directories) == ~Truthy(files) /\ ~Truthy(directories)
CreateData(files, directories, recursive) ==
    [present |-> TRUE, recursive |-> recursive,
     files |-> IF Truthy(files) THEN files ELSE None,
     directories |-> IF Truthy(directories) THEN directories ELSE None]

\* mutants: a terminal status is left out of the list
IsTerminalNoCancelled(s) == s \in {"completed", "failed"}
IsTerminalOnlyCompleted(s) == s = "completed"
\* monitor_job: job["status"] in ["completed", "failed", "cancelled"]
IsTerminal(s) == s \in {"completed", "failed", "cancelled"}

\* one iteration of monitor_job up to its return / sleep
MonitorStep(r, callback) ==
    IF raise_for_status(r) THEN "HTTPError"
    ELSE IF ~r.job.present THEN "KeyError"
    ELSE IF callback = "raises" THEN "CallbackError"
    ELSE IF callback = "None" /\ ~r.job.progress THEN "KeyError"
    ELSE IF r.job.status = Absent THEN "KeyError"
    ELSE IF IsTerminal(r.job.status) THEN "return"
    ELSE "sleep"

\* batch_cache_directories: the error, if any, of one item before monitoring
SubmitError(r) ==
    IF raise_for_status(r) THEN "HTTPError"
    ELSE IF r.jobId = Absent THEN "KeyError"
    ELSE IF ~r.totalFiles \/ ~r.totalSize THEN "KeyError"
    ELSE "none"
\* mutant: the ID is appended only after the prints that read the totals
AppendedAfterPrints(r) == SubmitError(r) = "none"
\* job_ids.append(job_id) has run
Appended(r) == ~raise_for_status(r) /\ r.jobId # Absent
\* mutant: the monitor flag is ignored
AlwaysMonitor(monitor) == TRUE
\* if monitor:
ShouldMonitor(monitor) == monitor
\* mutant: only KeyError is caught
CatchesKeyErrorOnly(e) == e = "KeyError"
\* except Exception as e: every error an item can end in is an Exception
Catches(e) == e \in {"ValueError", "HTTPError", "KeyError", "CallbackError"}

CanCall == pc = "idle"

\* a call starts from a clean frame
Frame(o, a) ==
    /\ op' = o
    /\ args' = a
    /\ ret_job' = NoJob
    /\ idx' = IF o = "batch_cache_directories" THEN 1 ELSE 0
    /\ job_ids' = <<>>
    /\ job_id' = a.job_id
    /\ report' = <<>>
    /\ polling' = {}
    /\ slept' = FALSE
    /\ everSlept' = FALSE

\* a method that sends one request and returns response.json()
Plain(o, a, req) ==
    /\ CanCall
    /\ Frame(o, a)
    /\ \E r \in PlainResponses :
        /\ lastRequest' = req
        /\ lastResp' = r
        /\ outcome' = IF raise_for_status(r) THEN "HTTPError" ELSE "returned"
        /\ ret' = IF raise_for_status(r) THEN NoResp ELSE r
    /\ createLog' = <<>>
    /\ pc' = "done"
    /\ UNCHANGED <<api_key, session_key, serverStatus, wsVars>>

\* ------------------------------------------------ TeamCacheClient: methods
health_check ==
    Plain("health_check", DefaultArgs,
          SessionRequest("health_check", "GET", "/api/v1/health", Absent, NoBody))

get_job_status ==
    \E j \in JobIds :
        Plain("get_job_status", [DefaultArgs EXCEPT !.job_id = j],
              SessionRequest("get_job_status", "GET", "/api/v1/cache/jobs/{job_id}", j, NoBody))

\* list_jobs: params = {"page": page, "limit": limit}; if status: params["status"]
ListParams(page, limit, status) ==
    [present |-> TRUE, page |-> page, limit |-> limit,
     status |-> IF status \in {"None", ""} THEN Absent ELSE status]

list_jobs ==
    \E page \in 1 .. 2, limit \in {5, 10}, status \in {"None", "", "running"} :
        Plain("list_jobs", DefaultArgs,
              [SessionRequest("list_jobs", "GET", "/api/v1/cache/jobs", Absent, NoBody)
                  EXCEPT !.params = ListParams(page, limit, status)])

cancel_job ==
    \E j \in JobIds :
        Plain("cancel_job", [DefaultArgs EXCEPT !.job_id = j],
              SessionRequest("cancel_job", "DELETE", "/api/v1/cache/jobs/{job_id}", j, NoBody))

get_metrics ==
    Plain("get_metrics", DefaultArgs,
          ModuleRequest("get_metrics", "GET", "/api/v1/metrics", Absent, NoBody))

get_s3_metrics ==
    Plain("get_s3_metrics", DefaultArgs,
          ModuleRequest("get_s3_metrics", "GET", "/api/v1/metrics/s3", Absent, NoBody))

create_cache_job ==
    /\ CanCall
    /\ \E files \in OptLists, directories \in OptLists, recursive \in BOOLEAN :
        /\ Frame("create_cache_job",
                 [DefaultArgs EXCEPT !.files = files, !.directories = directories,
                                     !.recursive = recursive])
        /\ IF CreateRaisesValueError(files, directories)
           THEN /\ outcome' = "ValueError"
                /\ ret' = NoResp
                /\ lastRequest' = NoRequest
                /\ lastResp' = NoResp
                /\ createLog' = <<>>
           ELSE \E r \in CreateResponses :
                LET req == SessionRequest("create_cache_job", "POST", "/api/v1/cache/jobs",
                                          Absent, CreateData(files, directories, recursive))
                IN  /\ lastRequest' = req
                    /\ lastResp' = r
                    /\ createLog' = <<[req |-> req, resp |-> r]>>
                    /\ outcome' = IF raise_for_status(r) THEN "HTTPError" ELSE "returned"
                    /\ ret' = IF raise_for_status(r) THEN NoResp ELSE r
    /\ pc' = "done"
    /\ UNCHANGED <<api_key, session_key, serverStatus, wsVars>>

\* monitor_job(job_id, interval, callback): entry
monitor_job ==
    /\ CanCall
    /\ \E j \in JobIds, cb \in Callbacks :
        Frame("monitor_job", [DefaultArgs EXCEPT !.job_id = j, !.callback = cb])
    /\ \E s \in Statuses : serverStatus' = s
    /\ outcome' = "none"
    /\ ret' = NoResp
    /\ lastRequest' = NoRequest
    /\ lastResp' = NoResp
    /\ createLog' = <<>>
    /\ pc' = "mon_poll"
    /\ UNCHANGED <<api_key, session_key, wsVars>>

\* how batch_cache_directories goes on after an item ended with `how`
NextItem(how) ==
    /\ pc' = "batch_loop"
    /\ idx' = idx + 1
    /\ report' = Append(report, how)
    /\ polling' = polling \ {idx}
    /\ UNCHANGED <<outcome, ret_job>>

\* an item of batch_cache_directories raised e: caught and reported, or propagated
ItemRaised(e) ==
    IF Catches(e)
    THEN NextItem(e)
    ELSE /\ pc' = "done"
         /\ outcome' = e
         /\ UNCHANGED <<idx, report, polling, ret_job>>

\* monitor_job: get_job_status, the progress display, the terminal check
MonitorPoll ==
    /\ pc = "mon_poll"
    /\ \E r \in StatusResponses(serverStatus) :
        LET res == MonitorStep(r, args.callback)
        IN  /\ lastRequest' = SessionRequest("get_job_status", "GET",
                                             "/api/v1/cache/jobs/{job_id}", job_id, NoBody)
            /\ lastResp' = r
            /\ IF res = "sleep"
               THEN /\ pc' = "mon_sleep"
                    /\ UNCHANGED <<outcome, ret_job, idx, report, polling>>
               ELSE IF op = "batch_cache_directories"
               THEN IF res = "return" THEN NextItem("ok") ELSE ItemRaised(res)
               ELSE /\ pc' = "done"
                    /\ outcome' = IF res = "return" THEN "returned" ELSE res
                    /\ ret_job' = IF res = "return" THEN r.job ELSE NoJob
                    /\ UNCHANGED <<idx, report, polling>>
    /\ slept' = FALSE
    /\ UNCHANGED <<api_key, session_key, op, args, ret, job_ids, job_id, serverStatus,
                   createLog, everSlept, wsVars>>

\* monitor_job: time.sleep(interval)
MonitorSleep ==
    /\ pc = "mon_sleep"
    /\ pc' = "mon_poll"
    /\ slept' = TRUE
    /\ everSlept' = TRUE
    /\ UNCHANGED <<api_key, session_key, op, args, outcome, ret, ret_job, idx, job_ids,
                   job_id, serverStatus, lastRequest, lastResp, createLog, report, polling,
                   wsVars>>

\* the remote job changes state while it is being monitored
ServerStep ==
    /\ pc \in {"mon_poll", "mon_sleep"}
    /\ \E s \in Statuses \ {serverStatus} : serverStatus' = s
    /\ UNCHANGED <<api_key, session_key, pc, op, args, outcome, ret, ret_job, idx, job_ids,
                   job_id, lastRequest, lastResp, createLog, report, polling, slept,
                   everSlept, wsVars>>

\* batch_cache_directories(directories, monitor): entry
batch_cache_directories ==
    /\ CanCall
    /\ \E ds \in SeqsUpTo(DirNames, MaxDirs), m \in BOOLEAN :
        Frame("batch_cache_directories",
              [DefaultArgs EXCEPT !.directories = Some(ds), !.monitor = m])
    /\ outcome' = "none"
    /\ ret' = NoResp
    /\ lastRequest' = NoRequest
    /\ lastResp' = NoResp
    /\ createLog' = <<>>
    /\ pc' = "batch_loop"
    /\ UNCHANGED <<api_key, session_key, serverStatus, wsVars>>

\* batch_cache_directories: one pass of the for loop up to the monitoring
BatchSubmit ==
    /\ pc = "batch_loop"
    /\ idx <= Len(args.directories.list)
    /\ LET files == None
           directories == Some(<<args.directories.list[idx]>>)
       IN  IF CreateRaisesValueError(files, directories)
           THEN /\ ItemRaised("ValueError")
                /\ UNCHANGED <<job_ids, job_id, serverStatus, lastRequest, lastResp,
                               createLog>>
           ELSE \E r \in CreateResponses :
                LET req == SessionRequest("create_cache_job", "POST", "/api/v1/cache/jobs",
                                          Absent, CreateData(files, directories, TRUE))
                IN  /\ lastRequest' = req
                    /\ lastResp' = r
                    /\ createLog' = Append(createLog, [req |-> req, resp |-> r])
                    /\ job_ids' = IF Appended(r) THEN Append(job_ids, r.jobId) ELSE job_ids
                    /\ IF SubmitError(r) = "none" /\ ShouldMonitor(args.monitor)
                       THEN /\ pc' = "mon_poll"
                            /\ job_id' = r.jobId
                            /\ polling' = polling \cup {idx}
                            /\ \E s \in Statuses : serverStatus' = s
                            /\ UNCHANGED <<idx, report, outcome, ret_job>>
                       ELSE /\ IF SubmitError(r) = "none" THEN NextItem("ok")
                               ELSE ItemRaised(SubmitError(r))
                            /\ UNCHANGED <<job_id, serverStatus>>
    /\ slept' = FALSE
    /\ everSlept' = FALSE
    /\ UNCHANGED <<api_key, session_key, op, args, ret, wsVars>>

\* batch_cache_directories: return job_ids
BatchReturn ==
    /\ pc = "batch_loop"
    /\ idx > Len(args.directories.list)
    /\ pc' = "done"
    /\ outcome' = "returned"
    /\ UNCHANGED <<api_key, session_key, op, args, ret, ret_job, idx, job_ids, job_id,
                   serverStatus, lastRequest, lastResp, createLog, report, polling, slept,
                   everSlept, wsVars>>

\* the caller drops the finished call's result and is free to call again
NextCall ==
    /\ pc = "done"
    /\ pc' = "idle"
    /\ Frame("none", DefaultArgs)
    /\ outcome' = "none"
    /\ ret' = NoResp
    /\ lastRequest' = NoRequest
    /\ lastResp' = NoResp
    /\ createLog' = <<>>
    /\ serverStatus' = "pending"
    /\ UNCHANGED <<api_key, session_key, wsVars>>

\* ---------------------------------------------------------- MetricsMonitor

\* data.get(key): None when the key is missing
Get(data, key) == IF data[key] = Absent THEN "None" ELSE data[key]

\* Python truthiness of an Optional[int]: None and 0 are falsy
TruthyInt(d) == ~d.none /\ d.val # 0

\* if duration and (time.time() - start_time) > duration: break
DurationOver(d, now, start) == TruthyInt(d) /\ (now - start) > d.val

\* asyncio.wait_for(websocket.recv(), timeout=1.0)
RecvTimeout == 1

\* mutant: every typed message is taken for a full snapshot
HandleMessageAsFull(m, old) ==
    IF m.valid /\ m.type \in {"metrics", "lucidlink-stats", "s3-health"}
    THEN [lucidLink |-> Get(m, "lucidLink"), s3Health |-> Get(m, "s3Health")]
    ELSE old

\* self.metrics after the handling of message m
HandleMessage(m, old) ==
    IF ~m.valid THEN old
    ELSE IF m.type = "metrics"
    THEN [lucidLink |-> Get(m, "lucidLink"), s3Health |-> Get(m, "s3Health")]
    ELSE IF m.type = "lucidlink-stats"
    THEN [old EXCEPT !.lucidLink = Get(m, "lucidLink")]
    ELSE IF m.type = "s3-health"
    THEN [old EXCEPT !.s3Health = Get(m, "s3Health")]
    ELSE old

\* the handling of message m raised (caught by `except Exception`)
HandleRaises(m) ==
    \/ ~m.valid
    \/ m.type = "lucidlink-stats" /\ m.lucidLink \in {Absent, "ll-nokey"}
    \/ m.type = "s3-health" /\ m.s3Health \in {Absent, "s3-nokey"}

\* connect_and_monitor(duration): entry, websockets.connect
connect_and_monitor ==
    /\ ws_pc \in {"idle", "done"}
    /\ \E d \in Durations : duration' = d
    /\ start_time' = clock
    /\ \E connected \in BOOLEAN :
        /\ ws_pc' = IF connected THEN "check" ELSE "done"
        /\ wsEvent' = IF connected THEN "connected" ELSE "ConnectError"
    /\ lastMsg' = NoMsg
    /\ UNCHANGED <<clock, metrics, lastLL, lastS3, clientVars>>

\* connect_and_monitor: the duration check at the head of the loop
WsCheck ==
    /\ ws_pc = "check"
    /\ IF DurationOver(duration, clock, start_time)
       THEN ws_pc' = "done" /\ wsEvent' = "break"
       ELSE ws_pc' = "recv" /\ wsEvent' = wsEvent
    /\ UNCHANGED <<duration, start_time, clock, metrics, lastMsg, lastLL, lastS3,
                   clientVars>>

\* connect_and_monitor: a message arrives within the timeout and is handled
WsMessage ==
    /\ ws_pc = "recv"
    /\ \E m \in Messages, dt \in 0 .. RecvTimeout :
        /\ clock + dt <= MaxClock
        /\ clock' = clock + dt
        /\ lastMsg' = m
        /\ metrics' = HandleMessage(m, metrics)
        /\ wsEvent' = IF HandleRaises(m) THEN "error" ELSE "message"
        /\ lastLL' = IF m.valid /\ m.type \in {"metrics", "lucidlink-stats"}
                      THEN Get(m, "lucidLink") ELSE lastLL
        /\ lastS3' = IF m.valid /\ m.type \in {"metrics", "s3-health"}
                      THEN Get(m, "s3Health") ELSE lastS3
    /\ ws_pc' = "check"
    /\ UNCHANGED <<duration, start_time, clientVars>>

\* connect_and_monitor: asyncio.TimeoutError after one second, `continue`
WsTimeout ==
    /\ ws_pc = "recv"
    /\ clock + RecvTimeout <= MaxClock
    /\ clock' = clock + RecvTimeout
    /\ lastMsg' = NoMsg
    /\ wsEvent' = "timeout"
    /\ ws_pc' = "check"
    /\ UNCHANGED <<duration, start_time, metrics, lastLL, lastS3, clientVars>>

\* connect_and_monitor: websocket.recv() raised (caught by `except Exception`)
WsRecvError ==
    /\ ws_pc = "recv"
    /\ \E dt \in 0 .. RecvTimeout :
        /\ clock + dt <= MaxClock
        /\ clock' = clock + dt
    /\ lastMsg' = NoMsg
    /\ wsEvent' = "error"
    /\ ws_pc' = "check"
    /\ UNCHANGED <<duration, start_time, metrics, lastLL, lastS3, clientVars>>

\* ------------------------------------------------------------------ Init
ClientInit ==
    /\ api_key \in ApiKeys
    /\ session_key = api_key
    /\ pc = "idle"
    /\ op = "none"
    /\ args = DefaultArgs
    /\ outcome = "none"
    /\ ret = NoResp
    /\ ret_job = NoJob
    /\ idx = 0
    /\ job_ids = <<>>
    /\ job_id = Absent
    /\ serverStatus = "pending"
    /\ lastRequest = NoRequest
    /\ lastResp = NoResp
    /\ createLog = <<>>
    /\ report = <<>>
    /\ polling = {}
    /\ slept = FALSE
    /\ everSlept = FALSE

WsInit ==
    /\ ws_pc = "idle"
    /\ duration = NoDuration
    /\ start_time = 0
    /\ clock = 0
    /\ metrics = [lucidLink |-> "None", s3Health |-> "None"]
    /\ lastMsg = NoMsg
    /\ wsEvent = "none"
    /\ lastLL = "None"
    /\ lastS3 = "None"

Init == ClientInit /\ WsInit

Next ==
    \/ health_check
    \/ create_cache_job
    \/ get_job_status
    \/ list_jobs
    \/ cancel_job
    \/ get_metrics
    \/ get_s3_metrics
    \/ monitor_job
    \/ MonitorPoll
    \/ MonitorSleep
    \/ ServerStep
    \/ batch_cache_directories
    \/ BatchSubmit
    \/ BatchReturn
    \/ NextCall

Spec == Init /\ [][Next]_vars

WsNext ==
    \/ connect_and_monitor
    \/ WsCheck
    \/ WsMessage
    \/ WsTimeout
    \/ WsRecvError

WsSpec == Init /\ [][WsNext]_vars

\* monitor_job alone, its loop scheduled fairly: the one thread that runs it
\* goes on to the next statement whenever it can
LiveNext ==
    \/ monitor_job
    \/ MonitorPoll
    \/ MonitorSleep
    \/ ServerStep
    \/ NextCall

LiveSpec == Init /\ [][LiveNext]_vars /\ WF_vars(MonitorPoll) /\ WF_vars(MonitorSleep)

\* ================================================================ claims

TerminalStatuses == {"completed", "failed", "cancelled"}
RestOps ==
    {"health_check", "create_cache_job", "get_job_status", "list_jobs", "cancel_job",
     "get_metrics", "get_s3_metrics"}
InMonitor == pc \in {"mon_poll", "mon_sleep"}

\* the last poll got as far as reading the job's status: the request succeeded
\* and the progress display (or the callback) before the check went through
StatusObserved ==
    /\ lastRequest.op = "get_job_status"
    /\ lastResp.http = "ok"
    /\ lastResp.job.present
    /\ lastResp.job.status # Absent
    /\ \/ args.callback = "returns"
       \/ args.callback = "None" /\ lastResp.job.progress

\* C1: monitor_job stops polling when a terminal job status is observed: the
\* poll that observes completed, failed or cancelled returns that poll's job at
\* once (no sleep and no request after it), a returned job is always terminal,
\* and a poll that observes another status does not return but sleeps, once,
\* before the next poll.
C1_StopsAtTerminal ==
    op = "monitor_job" =>
        /\ (StatusObserved /\ lastResp.job.status \in TerminalStatuses) =>
                /\ pc = "done"
                /\ outcome = "returned"
                /\ ret_job = lastResp.job
                /\ ~slept
        /\ (StatusObserved /\ lastResp.job.status \notin TerminalStatuses) =>
                /\ InMonitor
                /\ outcome = "none"
                /\ pc = "mon_sleep" <=> ~slept
        /\ outcome = "returned" =>
                /\ StatusObserved
                /\ ret_job.status \in TerminalStatuses
        /\ pc = "mon_sleep" => StatusObserved /\ lastResp.job.status \notin TerminalStatuses
        /\ (pc = "mon_poll" /\ lastRequest # NoRequest) => slept

\* C1 witness: monitor_job returned a cancelled job after sleeping at least once
C1_Witness ==
    /\ op = "monitor_job"
    /\ pc = "done"
    /\ outcome = "returned"
    /\ everSlept
    /\ ret_job.status = "cancelled"

\* C2: a failing HTTP status raises: a REST operation, and monitor_job on any
\* of its polls, that is answered with a failure status ends in an HTTP error
\* at once, with no payload and no job returned and with no further request.
C2_FailureRaises ==
    (op \in RestOps \cup {"monitor_job"} /\ lastResp.http = "error") =>
        /\ pc = "done"
        /\ outcome = "HTTPError"
        /\ ret = NoResp
        /\ ret_job = NoJob

\* C2 witness: a poll of monitor_job failed after earlier polls had succeeded
C2_Witness ==
    /\ op = "monitor_job"
    /\ everSlept
    /\ lastResp.http = "error"
    /\ outcome = "HTTPError"

\* C3: create_cache_job with files and directories both None or empty raises
\* ValueError and sends nothing; otherwise it sends exactly one creation
\* request with the recursive flag and only the non-empty lists.
C3_Validation ==
    (op = "create_cache_job" /\ pc = "done") =>
        LET f == args.files
            d == args.directories
            fEmpty == f.none \/ f.list = <<>>
            dEmpty == d.none \/ d.list = <<>>
        IN  IF fEmpty /\ dEmpty
            THEN /\ outcome = "ValueError"
                 /\ createLog = <<>>
                 /\ lastRequest = NoRequest
            ELSE /\ outcome \in {"returned", "HTTPError"}
                 /\ Len(createLog) = 1
                 /\ lastRequest = createLog[1].req
                 /\ lastRequest.op = "create_cache_job"
                 /\ lastRequest.method = "POST"
                 /\ lastRequest.body.present
                 /\ lastRequest.body.recursive = args.recursive
                 /\ lastRequest.body.files = (IF fEmpty THEN None ELSE f)
                 /\ lastRequest.body.directories = (IF dEmpty THEN None ELSE d)

\* C3 witness: an empty files list with directories None was refused
C3_Witness ==
    /\ op = "create_cache_job"
    /\ pc = "done"
    /\ args.files = Some(<<>>)
    /\ args.directories = None
    /\ outcome = "ValueError"

\* C4: batch_cache_directories never raises; while it runs the creation
\* requests sent so far are one per directory handled, in input order, and
\* when it returns every directory has had exactly one.
C4_PerItemCatch ==
    op = "batch_cache_directories" =>
        LET ds == args.directories.list
        IN  /\ outcome \in {"none", "returned"}
            /\ pc = "done" => outcome = "returned" /\ Len(createLog) = Len(ds)
            /\ pc = "batch_loop" => Len(createLog) = idx - 1
            /\ InMonitor => Len(createLog) = idx
            /\ Len(createLog) <= Len(ds)
            /\ \A k \in 1 .. Len(createLog) :
                /\ createLog[k].req.op = "create_cache_job"
                /\ createLog[k].req.body.directories = Some(<<ds[k]>>)
                /\ createLog[k].req.body.files = None

\* C4 witness: the first directory's creation failed, the second directory's
\* monitoring failed, and the call returned
C4_Witness ==
    /\ op = "batch_cache_directories"
    /\ pc = "done"
    /\ Len(args.directories.list) = 2
    /\ createLog[1].resp.http = "error"
    /\ createLog[2].resp.http = "ok"
    /\ report = <<"HTTPError", "HTTPError">>

\* C7: with monitor=True a creation request is sent only when no job created
\* by the batch is still being polled, so at most one is polled at any time;
\* with monitor=False no status request is sent.
C7_NoConcurrentJobs ==
    /\ [](op = "batch_cache_directories" =>
            /\ Cardinality(polling) <= 1
            /\ InMonitor <=> polling # {}
            /\ ~args.monitor =>
                    /\ lastRequest.op # "get_job_status"
                    /\ polling = {}
                    /\ ~InMonitor)
    /\ [][(op = "batch_cache_directories" /\ createLog' # createLog /\ pc' # "idle")
            => polling = {}]_vars

\* C7 witness: the second directory's job is being polled after the first
\* one's monitoring ended with a terminal status
C7_Witness ==
    /\ op = "batch_cache_directories"
    /\ args.monitor
    /\ report = <<"ok">>
    /\ polling = {2}
    /\ pc = "mon_sleep"

\* the job IDs of the creation exchanges that succeeded and carried a jobId
RECURSIVE CreatedIds(_)
CreatedIds(log) ==
    IF log = <<>> THEN <<>>
    ELSE LET rest == CreatedIds(SubSeq(log, 1, Len(log) - 1))
             last == log[Len(log)].resp
         IN  IF last.http = "ok" /\ last.jobId # Absent
             THEN Append(rest, last.jobId)
             ELSE rest

\* C8: job_ids holds exactly the job IDs of the directories whose creation
\* succeeded with a jobId, once each and in input order, whatever failed later
\* for the same directory.
C8_JobIds ==
    op = "batch_cache_directories" => job_ids = CreatedIds(createLog)

\* C8 witness: the first job lacked totalFiles, the second one's monitoring
\* failed, and both IDs were returned in order
C8_Witness ==
    /\ op = "batch_cache_directories"
    /\ pc = "done"
    /\ job_ids = <<"j2", "j1">>
    /\ ~createLog[1].resp.totalFiles
    /\ report = <<"KeyError", "HTTPError">>

\* C10: every request a TeamCacheClient operation sends carries X-API-Key set
\* to the api_key given at construction.
C10_EveryRequestCarriesKey ==
    lastRequest # NoRequest => lastRequest.key = api_key

\* C6: if the server ends up reporting a terminal status for good and no poll
\* raises, a running monitor_job eventually returns, and with a terminal job.
C6_EventuallyReturns ==
    (<>[](serverStatus \in TerminalStatuses) /\ [](outcome \in {"none", "returned"}))
        => []((op = "monitor_job" /\ InMonitor)
                => <>(pc = "done" /\ outcome = "returned"
                        /\ ret_job.status \in TerminalStatuses))

\* C6 witness: monitor_job returned after polling a job that was not yet
\* terminal
C6_Witness ==
    /\ op = "monitor_job"
    /\ args.callback = "None"
    /\ pc = "done"
    /\ outcome = "returned"
    /\ everSlept
    /\ serverStatus \in TerminalStatuses

\* what self.metrics must be after message m, by m's type
ByType(m, old) ==
    [lucidLink |->
        IF m.valid /\ m.type \in {"metrics", "lucidlink-stats"}
        THEN (IF m.lucidLink = Absent THEN "None" ELSE m.lucidLink)
        ELSE old.lucidLink,
     s3Health |->
        IF m.valid /\ m.type \in {"metrics", "s3-health"}
        THEN (IF m.s3Health = Absent THEN "None" ELSE m.s3Health)
        ELSE old.s3Health]

\* C9: a metrics message replaces both entries, lucidlink-stats only
\* lucidLink, s3-health only s3Health, anything else neither; each entry is
\* always the value of the last message allowed to replace it (None before).
C9_SnapshotByType ==
    /\ [](metrics.lucidLink = lastLL /\ metrics.s3Health = lastS3)
    /\ [][(ws_pc = "recv" /\ ws_pc' = "check") => metrics' = ByType(lastMsg', metrics)]_vars
    /\ [][ws_pc # "recv" => metrics' = metrics]_vars

\* C9 witness: an s3-health message replaced s3Health and left a lucidLink
\* value from an earlier message in place
C9_Witness ==
    /\ lastMsg.valid
    /\ lastMsg.type = "s3-health"
    /\ lastMsg.s3Health = "s3-1"
    /\ lastMsg.lucidLink = Absent
    /\ metrics = [lucidLink |-> "ll-1", s3Health |-> "s3-1"]

\* C5: with a duration other than None the receive loop is not entered again
\* once the time since the start exceeds the duration.
C5_DurationEndsLoop ==
    (ws_pc = "recv" /\ ~duration.none) => (clock - start_time) <= duration.val

====
